---- MODULE Spec2Model ----
(***************************************************************************)
(* Wilderness Survival (CS3560-WSS): the agent's turn loop, the A* search  *)
(* of the brain, the resource ledger and the trade negotiation between the *)
(* player and a trader.                                                    *)
(***************************************************************************)
EXTENDS Integers, Sequences, FiniteSets, TLC

VARIABLES
    grid,        \* world.grid: the terrain of every cell
    astar,       \* the last call of the search and what it returned
    inventory,   \* the player's Inventory
    call,        \* the last Inventory operation and what it returned
    traderInv,   \* the trader's Inventory
    traderKind,  \* "Trader" or "GreedyTrader"
    trade,       \* the last negotiation and what it decided
    items,       \* game.items: the items on the map
    location,    \* player.location
    strength,    \* player.strength
    path,        \* brain.path: the committed route
    turn,        \* the last step of the session and the route being consumed
    traders,     \* world.traders: the traders on the map
    scan         \* the last call of Vision.scan_area and what it returned

vars == <<grid, astar, inventory, call, traderInv, traderKind, trade,
          items, location, strength, path, turn, traders, scan>>

worldVars == <<grid, astar>>
ledgerVars == <<inventory, call>>
tradeVars == <<traderInv, traderKind, trade>>
sessionVars == <<items, location, strength, path, turn, traders, scan>>

(***************************************************************************)
(* Bounds of the model.                                                    *)
(***************************************************************************)
GridW == 3
GridH == 2
MaxRough == 1
MaxItems == 3
MaxAmount == 3
MaxQty == 5
MaxTurns == 3
MaxKeys == 1
MaxRadius == 2

(***************************************************************************)
(* Program constants.                                                      *)
(***************************************************************************)
\* float("inf"): the cost of an impassable cell and of "no path"
Inf == 1000000
\* Game.setup: Inventory(12, 12, 12, max_items=30)
PlayerMaxItems == 30
\* Game.place_traders: Inventory(100, 50, 50, max_items=3000)
TraderMaxItems == 3000
\* Player.evaluate_counter_offer: counter_offer['quantity'] <= 10
CounterLimit == 10
\* Player.is_at_trader_location: random.randint(1, 10)
MaxRequested == 10
\* CautiousBrain.decide_path: scan_area(radius=20)
ScanRadius == 20

(***************************************************************************)
(* world/terrain.py, world/map.py                                          *)
(***************************************************************************)
Terrains == {"Plains", "Forest", "Mountain", "Desert", "Water"}

\* a terrain whose move_cost is the impassable sentinel
Impassable == "Impassable"

move_cost(t) ==
    CASE t = "Plains" -> 1
      [] t = "Forest" -> 2
      [] t = "Mountain" -> 3
      [] t = "Desert" -> 2
      [] t = "Water" -> 1
      [] OTHER -> Inf

water_cost(t) ==
    CASE t = "Plains" -> 1
      [] t = "Forest" -> 1
      [] t = "Mountain" -> 2
      [] t = "Desert" -> 3
      [] t = "Water" -> 0
      [] OTHER -> 0

food_cost(t) ==
    CASE t = "Plains" -> 1
      [] t = "Forest" -> 2
      [] t = "Mountain" -> 2
      [] t = "Desert" -> 3
      [] t = "Water" -> 1
      [] OTHER -> 0

Cells == (0 .. GridW - 1) \X (0 .. GridH - 1)

in_bounds(pos) == 0 <= pos[1] /\ pos[1] < GridW /\ 0 <= pos[2] /\ pos[2] < GridH

get_terrain(g, pos) == g[pos]

(***************************************************************************)
(* ai/brains.py: the A* search                                             *)
(***************************************************************************)
Abs(n) == IF n < 0 THEN -n ELSE n

\* a heuristic that overestimates the remaining cost
_heuristic_tripled(a, b) == 3 * (Abs(a[1] - b[1]) + Abs(a[2] - b[2]))

_heuristic(a, b) == Abs(a[1] - b[1]) + Abs(a[2] - b[2])

_neighbors(pos) ==
    SelectSeq(<< <<pos[1] + 1, pos[2]>>, <<pos[1] - 1, pos[2]>>,
                 <<pos[1], pos[2] + 1>>, <<pos[1], pos[2] - 1>> >>, in_bounds)

\* markers of the dictionaries came_from and cost_so_far
NonePos == <<-1, -1>>
Absent == <<-2, -2>>
Unseen == -1

\* heapq orders the entries (priority, (x, y)) as Python orders tuples
EntryLess(e, f) ==
    \/ e[1] < f[1]
    \/ e[1] = f[1] /\ e[2][1] < f[2][1]
    \/ e[1] = f[1] /\ e[2][1] = f[2][1] /\ e[2][2] < f[2][2]

\* a pop that takes the greatest position among the entries of the least
\* priority
heappop_descending(frontier) ==
    CHOOSE e \in frontier : \A f \in frontier \ {e} :
        \/ e[1] < f[1]
        \/ e[1] = f[1] /\ f[2][1] < e[2][1]
        \/ e[1] = f[1] /\ f[2][1] = e[2][1] /\ f[2][2] < e[2][2]

heappop(frontier) == CHOOSE e \in frontier : \A f \in frontier \ {e} : EntryLess(e, f)

\* the state of the search before the loop: lines 143-147
AStarStart(start, goal) ==
    LET dom == Cells \cup {start, goal} IN
    [frontier |-> {<<0, start>>},
     came_from |-> [p \in dom |-> IF p = start THEN NonePos ELSE Absent],
     cost_so_far |-> [p \in dom |-> IF p = start THEN 0 ELSE Unseen],
     current |-> NonePos,
     done |-> FALSE]

\* the body of the loop with the goal exempt from the test for an
\* impassable cell
Relax_goal_exempt(g, st, current, nxt, goal) ==
    LET mc == move_cost(get_terrain(g, nxt))
        new_cost == st.cost_so_far[current] + mc
    IN  IF mc = Inf /\ nxt # goal
        THEN st
        ELSE IF st.cost_so_far[nxt] = Unseen \/ new_cost < st.cost_so_far[nxt]
             THEN [st EXCEPT !.cost_so_far[nxt] = new_cost,
                             !.frontier = @ \cup {<<new_cost + _heuristic(nxt, goal), nxt>>},
                             !.came_from[nxt] = current]
             ELSE st

\* the body of the loop without the test for an impassable cell
Relax_through_walls(g, st, current, nxt, goal) ==
    LET new_cost == st.cost_so_far[current] + move_cost(get_terrain(g, nxt))
    IN  IF st.cost_so_far[nxt] = Unseen \/ new_cost < st.cost_so_far[nxt]
        THEN [st EXCEPT !.cost_so_far[nxt] = new_cost,
                        !.frontier = @ \cup {<<new_cost + _heuristic(nxt, goal), nxt>>},
                        !.came_from[nxt] = current]
        ELSE st

\* the body of "for nxt in self._neighbors(current)" for one neighbour
Relax(g, st, current, nxt, goal) ==
    LET mc == move_cost(get_terrain(g, nxt))
        new_cost == st.cost_so_far[current] + mc
    IN  IF mc = Inf
        THEN st
        ELSE IF st.cost_so_far[nxt] = Unseen \/ new_cost < st.cost_so_far[nxt]
             THEN [st EXCEPT !.cost_so_far[nxt] = new_cost,
                             !.frontier = @ \cup {<<new_cost + _heuristic(nxt, goal), nxt>>},
                             !.came_from[nxt] = current]
             ELSE st

RECURSIVE RelaxAll(_, _, _, _, _, _)
RelaxAll(g, st, current, nbrs, i, goal) ==
    IF i > Len(nbrs) THEN st
    ELSE RelaxAll(g, Relax(g, st, current, nbrs[i], goal), current, nbrs, i + 1, goal)

\* an iteration that reads the least entry and leaves it in the frontier
AStarStep_peek(g, st, goal) ==
    LET e == heappop(st.frontier)
        popped == [st EXCEPT !.current = e[2]]
    IN  IF e[2] = goal
        THEN [popped EXCEPT !.done = TRUE]
        ELSE RelaxAll(g, popped, e[2], _neighbors(e[2]), 1, goal)

\* one iteration of "while frontier": pop, test for the goal, expand
AStarStep(g, st, goal) ==
    LET e == heappop(st.frontier)
        popped == [st EXCEPT !.frontier = @ \ {e}, !.current = e[2]]
    IN  IF e[2] = goal
        THEN [popped EXCEPT !.done = TRUE]
        ELSE RelaxAll(g, popped, e[2], _neighbors(e[2]), 1, goal)

RECURSIVE AStarLoop(_, _, _)
AStarLoop(g, st, goal) ==
    IF st.frontier = {} \/ st.done THEN st
    ELSE AStarLoop(g, AStarStep(g, st, goal), goal)

\* lines 177-183: walk came_from back from the goal, then reverse
RECURSIVE PathBack(_, _, _)
PathBack(came_from, start, cur) ==
    IF cur = start THEN <<>>
    ELSE Append(PathBack(came_from, start, came_from[cur]), cur)

Reverse(seq) == [i \in 1 .. Len(seq) |-> seq[Len(seq) + 1 - i]]

\* the path as it is collected, from the goal back, without path.reverse()
AStarResult_unreversed(st, start, goal) ==
    IF st.came_from[goal] = Absent
    THEN [path |-> <<>>, total_cost |-> Inf]
    ELSE [path |-> Reverse(PathBack(st.came_from, start, goal)),
          total_cost |-> st.cost_so_far[goal]]

\* "no path" for every empty path
AStarResult_empty_inf(st, start, goal) ==
    IF st.came_from[goal] = Absent \/ goal = start
    THEN [path |-> <<>>, total_cost |-> Inf]
    ELSE [path |-> PathBack(st.came_from, start, goal),
          total_cost |-> st.cost_so_far[goal]]

AStarResult(st, start, goal) ==
    IF st.came_from[goal] = Absent
    THEN [path |-> <<>>, total_cost |-> Inf]
    ELSE LET p == PathBack(st.came_from, start, goal)
             q == IF p # <<>> /\ p[1] = start THEN Tail(p) ELSE p
         IN  [path |-> q, total_cost |-> st.cost_so_far[goal]]

_a_star_path(g, start, goal) ==
    AStarResult(AStarLoop(g, AStarStart(start, goal), goal), start, goal)

(***************************************************************************)
(* systems/inventory.py                                                    *)
(***************************************************************************)
Resources == {"gold", "food", "water"}

\* a resource kind the ledger does not know
UnknownResource == "wood"

Min(a, b) == IF a < b THEN a ELSE b
Max(a, b) == IF a > b THEN a ELSE b

\* add without the cap
add_uncapped(inv, resource, amount) ==
    IF resource \in Resources
    THEN [inv |-> [inv EXCEPT ![resource] = @ + amount], raised |-> FALSE]
    ELSE [inv |-> inv, raised |-> TRUE]

\* Inventory.add: [inv, raised]; raised stands for the ValueError
add(inv, resource, amount) ==
    IF resource \in Resources
    THEN [inv |-> [inv EXCEPT ![resource] = Min(@ + amount, inv.max_items)],
          raised |-> FALSE]
    ELSE [inv |-> inv, raised |-> TRUE]

\* spend that empties the counter when the balance is short
spend_drained(inv, resource, amount) ==
    IF resource \in Resources /\ inv[resource] >= amount
    THEN [inv |-> [inv EXCEPT ![resource] = @ - amount], ok |-> TRUE]
    ELSE IF resource \in Resources
    THEN [inv |-> [inv EXCEPT ![resource] = 0], ok |-> FALSE]
    ELSE [inv |-> inv, ok |-> FALSE]

\* Inventory.spend: [inv, ok]; ok is the value returned
spend(inv, resource, amount) ==
    IF resource \in Resources /\ inv[resource] >= amount
    THEN [inv |-> [inv EXCEPT ![resource] = @ - amount], ok |-> TRUE]
    ELSE [inv |-> inv, ok |-> FALSE]

balance(inv, resource) == IF resource \in Resources THEN inv[resource] ELSE -1

\* Inventory.random_resource: the kinds random.choice can return
random_resource(inv) == {r \in Resources : inv[r] > 0}

NoCall == [op |-> "none"]

(***************************************************************************)
(* actors/trader.py                                                        *)
(***************************************************************************)
Offer(item, quantity) == [item |-> item, quantity |-> quantity]

\* the value None of counter_trade_offer
NoCounter == [item |-> "None", quantity |-> 0, item_given |-> "None", quantity_given |-> 0]

\* the fairness floor with a floor division
Trader_evaluate_floor(inv, presenting, requesting) ==
    /\ balance(inv, requesting.item) >= requesting.quantity
    /\ presenting.quantity >= requesting.quantity \div 2

Trader_evaluate_trade_offer(inv, presenting, requesting) ==
    LET trader_has_stock == balance(inv, requesting.item) >= requesting.quantity
        \* quantity_given >= quantity_requested / 2, a true division
        is_reasonable_offer == 2 * presenting.quantity >= requesting.quantity
    IN  IF trader_has_stock /\ is_reasonable_offer THEN TRUE
        ELSE IF ~trader_has_stock THEN FALSE
        ELSE FALSE

\* a counter-offer that is not capped by the stock
Trader_counter_uncapped(inv, presenting, requesting) ==
    IF balance(inv, requesting.item) <= 0 THEN NoCounter
    ELSE [item |-> requesting.item,
          quantity |-> requesting.quantity,
          item_given |-> presenting.item,
          quantity_given |-> Max(1, (requesting.quantity + 1) \div 2)]

\* a counter-offer that rounds the half down
Trader_counter_floor(inv, presenting, requesting) ==
    LET max_quantity_available == balance(inv, requesting.item) IN
    IF max_quantity_available <= 0 THEN NoCounter
    ELSE LET counter_quantity_requested == Min(requesting.quantity, max_quantity_available)
         IN  [item |-> requesting.item,
              quantity |-> counter_quantity_requested,
              item_given |-> presenting.item,
              quantity_given |-> Max(1, counter_quantity_requested \div 2)]

\* a counter-offer that asks the player for a quarter of what the trader gives
Trader_counter_quarter(inv, presenting, requesting) ==
    LET max_quantity_available == balance(inv, requesting.item) IN
    IF max_quantity_available <= 0 THEN NoCounter
    ELSE LET counter_quantity_requested == Min(requesting.quantity, max_quantity_available)
         IN  [item |-> requesting.item,
              quantity |-> counter_quantity_requested,
              item_given |-> presenting.item,
              quantity_given |-> Max(1, (counter_quantity_requested + 3) \div 4)]

Trader_counter_trade_offer(inv, presenting, requesting) ==
    LET max_quantity_available == balance(inv, requesting.item) IN
    IF max_quantity_available <= 0 THEN NoCounter
    ELSE LET counter_quantity_requested == Min(requesting.quantity, max_quantity_available)
             counter_quantity_given == Max(1, (counter_quantity_requested + 1) \div 2)
         IN  [item |-> requesting.item,
              quantity |-> counter_quantity_requested,
              item_given |-> presenting.item,
              quantity_given |-> counter_quantity_given]

\* the 1:1 floor as a strict inequality
GreedyTrader_evaluate_strict(inv, presenting, requesting) ==
    /\ balance(inv, requesting.item) >= requesting.quantity
    /\ presenting.quantity > requesting.quantity

GreedyTrader_evaluate_trade_offer(inv, presenting, requesting) ==
    LET trader_has_stock == balance(inv, requesting.item) >= requesting.quantity
        is_reasonable_offer == presenting.quantity >= requesting.quantity
    IN  IF trader_has_stock /\ is_reasonable_offer THEN TRUE
        ELSE IF ~trader_has_stock THEN FALSE
        ELSE FALSE

\* a counter-offer made with an empty stock
GreedyTrader_counter_empty(inv, presenting, requesting) ==
    IF balance(inv, requesting.item) < 0 THEN NoCounter
    ELSE [item |-> requesting.item,
          quantity |-> Max(1, Min(requesting.quantity \div 2, balance(inv, requesting.item))),
          item_given |-> presenting.item,
          quantity_given |-> requesting.quantity]

\* a counter-offer that demands what the player offered
GreedyTrader_counter_discount(inv, presenting, requesting) ==
    LET max_stock == balance(inv, requesting.item) IN
    IF max_stock <= 0 THEN NoCounter
    ELSE [item |-> requesting.item,
          quantity |-> Max(1, Min(requesting.quantity \div 2, max_stock)),
          item_given |-> presenting.item,
          quantity_given |-> presenting.quantity]

GreedyTrader_counter_trade_offer(inv, presenting, requesting) ==
    LET max_stock == balance(inv, requesting.item) IN
    IF max_stock <= 0 THEN NoCounter
    ELSE LET counter_q_requested == Max(1, Min(requesting.quantity \div 2, max_stock))
             counter_q_given == requesting.quantity
         IN  [item |-> requesting.item,
              quantity |-> counter_q_requested,
              item_given |-> presenting.item,
              quantity_given |-> counter_q_given]

\* the method the trader's class binds
evaluate_trade_offer(kind, inv, presenting, requesting) ==
    IF kind = "GreedyTrader"
    THEN GreedyTrader_evaluate_trade_offer(inv, presenting, requesting)
    ELSE Trader_evaluate_trade_offer(inv, presenting, requesting)

counter_trade_offer(kind, inv, presenting, requesting) ==
    IF kind = "GreedyTrader"
    THEN GreedyTrader_counter_trade_offer(inv, presenting, requesting)
    ELSE Trader_counter_trade_offer(inv, presenting, requesting)

(***************************************************************************)
(* actors/actor.py, actors/player.py                                       *)
(***************************************************************************)
\* Actor.update_inventory_after_trade: spend, its result dropped, then add
update_inventory_after_trade(inv, item_given, quantity_given, item_requested, quantity_requested) ==
    add(spend(inv, item_given, quantity_given).inv, item_requested, quantity_requested).inv

\* the threshold as a strict inequality
evaluate_counter_offer_strict(counter_offer) == counter_offer.quantity < CounterLimit

evaluate_counter_offer(counter_offer) == counter_offer.quantity <= CounterLimit

\* Player.propose_trade: the two inventories it leaves and what it decided
\* propose_trade that takes the player's payment before the trader decides
propose_trade_prepaid(pinv, tinv, kind, presenting, requesting) ==
    LET accepted == evaluate_trade_offer(kind, tinv, presenting, requesting)
        counter == counter_trade_offer(kind, tinv, presenting, requesting)
        paid == spend(pinv, presenting.item, presenting.quantity).inv
    IN  IF accepted
        THEN [player |-> add(paid, requesting.item, requesting.quantity).inv,
              trader |-> spend(add(tinv, presenting.item, presenting.quantity).inv,
                               requesting.item, requesting.quantity).inv,
              accepted |-> TRUE, counter |-> NoCounter, outcome |-> "original"]
        ELSE IF counter # NoCounter
        THEN IF evaluate_counter_offer(counter)
             THEN [player |-> update_inventory_after_trade(pinv, counter.item_given,
                                  counter.quantity_given, counter.item, counter.quantity),
                   trader |-> update_inventory_after_trade(tinv, counter.item_given,
                                  counter.quantity_given, counter.item, counter.quantity),
                   accepted |-> FALSE, counter |-> counter, outcome |-> "counter"]
             ELSE [player |-> paid, trader |-> tinv,
                   accepted |-> FALSE, counter |-> counter, outcome |-> "counter_rejected"]
        ELSE [player |-> paid, trader |-> tinv,
              accepted |-> FALSE, counter |-> NoCounter, outcome |-> "rejected"]

propose_trade(pinv, tinv, kind, presenting, requesting) ==
    LET accepted == evaluate_trade_offer(kind, tinv, presenting, requesting)
        counter == counter_trade_offer(kind, tinv, presenting, requesting)
    IN  IF accepted
        THEN [player |-> update_inventory_after_trade(pinv, presenting.item, presenting.quantity,
                                                      requesting.item, requesting.quantity),
              trader |-> spend(add(tinv, presenting.item, presenting.quantity).inv,
                               requesting.item, requesting.quantity).inv,
              accepted |-> TRUE, counter |-> NoCounter, outcome |-> "original"]
        ELSE IF counter # NoCounter
        THEN IF evaluate_counter_offer(counter)
             THEN [player |-> update_inventory_after_trade(pinv, counter.item_given,
                                  counter.quantity_given, counter.item, counter.quantity),
                   trader |-> update_inventory_after_trade(tinv, counter.item_given,
                                  counter.quantity_given, counter.item, counter.quantity),
                   accepted |-> FALSE, counter |-> counter, outcome |-> "counter"]
             ELSE [player |-> pinv, trader |-> tinv,
                   accepted |-> FALSE, counter |-> counter, outcome |-> "counter_rejected"]
        ELSE [player |-> pinv, trader |-> tinv,
              accepted |-> FALSE, counter |-> NoCounter, outcome |-> "rejected"]

\* the four tiles next to the trader, "tile_above ... tile_below"
NextToTrader(loc, trader_location) ==
    loc \in {<<trader_location[1], trader_location[2] + 1>>,
             <<trader_location[1] - 1, trader_location[2]>>,
             <<trader_location[1] + 1, trader_location[2]>>,
             <<trader_location[1], trader_location[2] - 1>>}

\* Player.is_at_trader_location, the random choices: what the player can
\* present (a kind it holds and 1 .. balance - 1 units of it) and request
\* (a kind it holds and 1 .. 10 units of it)
RandomProposals(inv) ==
    UNION {{<<Offer(item_offered, quantity_offered), Offer(item_requested, quantity_requested)>> :
               quantity_offered \in 1 .. Max(0, balance(inv, item_offered) - 1),
               item_requested \in random_resource(inv),
               quantity_requested \in 1 .. MaxRequested} :
           item_offered \in random_resource(inv)}

NoTrade == [op |-> "none"]

(***************************************************************************)
(* ai/brains.py: the brain                                                 *)
(***************************************************************************)
\* the kinds of item: WaterBonus, FoodBonus, GoldBonus, RepeatingFoodFountain
ItemKinds == {"water", "food", "gold", "foodFountain"}

Item(kind, pos) == [kind |-> kind, pos |-> pos]

\* x / max_items < tenths / 10, the comparison of a need with a threshold
Below(x, tenths, max_items) == 10 * x < tenths * max_items

\* the order in which a scan visits the cells (dx outside, dy inside),
\* sorted by distance with a stable sort
ScanBefore(loc, a, b) ==
    \/ _heuristic(loc, a) < _heuristic(loc, b)
    \/ _heuristic(loc, a) = _heuristic(loc, b) /\ a[1] < b[1]
    \/ _heuristic(loc, a) = _heuristic(loc, b) /\ a[1] = b[1] /\ a[2] < b[2]

RECURSIVE ScanSorted(_, _)
ScanSorted(loc, S) ==
    IF S = {} THEN <<>>
    ELSE LET c == CHOOSE a \in S : \A b \in S \ {a} : ScanBefore(loc, a, b)
         IN  <<c>> \o ScanSorted(loc, S \ {c})

\* Vision.scan_area(radius)[kind]: the positions of the items of the kind
\* within the radius, nearest first
scan_area(its, loc, radius, kind) ==
    ScanSorted(loc, {c \in Cells : /\ Abs(c[1] - loc[1]) <= radius
                                   /\ Abs(c[2] - loc[2]) <= radius
                                   /\ Item(kind, c) \in its})

\* a ratio a / b, kept as the pair of its numerator and its denominator
Ratio(a, b) == <<a, b>>

\* Brain._assess_needs
_assess_needs(inv, str) ==
    [strength |-> Ratio(str, inv.max_items),
     food |-> Ratio(inv.food, inv.max_items),
     water |-> Ratio(inv.water, inv.max_items)]

\* the choice of the first candidate that has a path: the nearest one
RECURSIVE BestPath_nearest(_, _, _, _, _)
BestPath_nearest(g, player_pos, candidates, i, best) ==
    IF i > Len(candidates) THEN best.path
    ELSE LET r == _a_star_path(g, player_pos, candidates[i])
         IN  IF r.path # <<>> THEN r.path
             ELSE BestPath_nearest(g, player_pos, candidates, i + 1, best)

RECURSIVE BestPath(_, _, _, _, _)
BestPath(g, player_pos, candidates, i, best) ==
    IF i > Len(candidates) THEN best.path
    ELSE LET r == _a_star_path(g, player_pos, candidates[i])
         IN  BestPath(g, player_pos, candidates, i + 1,
                      IF r.path # <<>> /\ r.total_cost < best.total_cost THEN r ELSE best)

find_path_to(g, candidates, player_pos) ==
    IF candidates = <<>> THEN <<>>
    ELSE BestPath(g, player_pos, candidates, 1, [path |-> <<>>, total_cost |-> Inf])

\* decide_path without the rest of a player that is low on strength
CautiousBrain_decide_path_restless(g, its, inv, str, playerPos) ==
    LET m == inv.max_items
        water == find_path_to(g, scan_area(its, playerPos, ScanRadius, "water"), playerPos)
        food == find_path_to(g, scan_area(its, playerPos, ScanRadius, "food"), playerPos)
    IN  IF Below(str, 3, m) THEN <<>>
        ELSE IF Below(inv.water, 4, m) /\ water # <<>> THEN water
        ELSE IF Below(inv.food, 4, m) /\ food # <<>> THEN food
        ELSE IF Below(inv.water, 7, m) /\ water # <<>> THEN water
        ELSE IF Below(inv.food, 7, m) /\ food # <<>> THEN food
        ELSE << <<playerPos[1] + 1, playerPos[2]>> >>

\* decide_path that looks for food before it looks for water
CautiousBrain_decide_path_food_first(g, its, inv, str, playerPos) ==
    LET m == inv.max_items
        water == find_path_to(g, scan_area(its, playerPos, ScanRadius, "water"), playerPos)
        food == find_path_to(g, scan_area(its, playerPos, ScanRadius, "food"), playerPos)
    IN  IF Below(str, 3, m) THEN <<>>
        ELSE IF Below(inv.food, 4, m) /\ food # <<>> THEN food
        ELSE IF Below(inv.water, 4, m) /\ water # <<>> THEN water
        ELSE IF Below(inv.food, 7, m) /\ food # <<>> THEN food
        ELSE IF Below(inv.water, 7, m) /\ water # <<>> THEN water
        ELSE IF Below(str, 7, m) THEN <<>>
        ELSE << <<playerPos[1] + 1, playerPos[2]>> >>

CautiousBrain_decide_path(g, its, inv, str, playerPos) ==
    LET m == inv.max_items
        water == find_path_to(g, scan_area(its, playerPos, ScanRadius, "water"), playerPos)
        food == find_path_to(g, scan_area(its, playerPos, ScanRadius, "food"), playerPos)
    IN  IF Below(str, 3, m) THEN <<>>
        ELSE IF Below(inv.water, 4, m) /\ water # <<>> THEN water
        ELSE IF Below(inv.food, 4, m) /\ food # <<>> THEN food
        ELSE IF Below(inv.water, 7, m) /\ water # <<>> THEN water
        ELSE IF Below(inv.food, 7, m) /\ food # <<>> THEN food
        ELSE IF Below(str, 7, m) THEN <<>>
        ELSE << <<playerPos[1] + 1, playerPos[2]>> >>

\* list.remove(x): without the first element equal to x
RECURSIVE ListRemove(_, _)
ListRemove(seq, x) ==
    IF seq = <<>> THEN <<>>
    ELSE IF Head(seq) = x THEN Tail(seq)
    ELSE <<Head(seq)>> \o ListRemove(Tail(seq), x)

\* Player.set_location
set_location(str, move) == [location |-> move, strength |-> str - 1]

\* Player.rest: the player skips the turn and gains a strength point
rest(loc, str) == [location |-> loc, strength |-> str + 1]

\* make_move that leaves the position it moved to in the route
make_move_keep(p, loc, str, plan) ==
    LET planned == (p = <<>>)
        route == IF planned THEN plan ELSE p
    IN  IF route # <<>>
        THEN [path |-> route, location |-> route[1], strength |-> str - 1,
              planned |-> planned, rested |-> FALSE, route |-> route]
        ELSE [path |-> route, location |-> loc, strength |-> str + 1,
              planned |-> planned, rested |-> TRUE, route |-> route]

\* make_move that plans anew on every turn
make_move_replan(p, loc, str, plan) ==
    IF plan # <<>>
    THEN [path |-> Tail(plan), location |-> plan[1], strength |-> str - 1,
          planned |-> TRUE, rested |-> FALSE, route |-> plan]
    ELSE [path |-> plan, location |-> loc, strength |-> str + 1,
          planned |-> TRUE, rested |-> TRUE, route |-> plan]

\* Brain.make_move; plan is what decide_path returns if it is called
make_move(p, loc, str, plan) ==
    LET planned == (p = <<>>)
        route == IF planned THEN plan ELSE p
    IN  IF route # <<>>
        THEN LET move == route[1]
                 s == set_location(str, move)
             IN  [path |-> ListRemove(route, move), location |-> s.location,
                  strength |-> s.strength, planned |-> planned, rested |-> FALSE,
                  route |-> route]
        ELSE LET s == rest(loc, str)
             IN  [path |-> route, location |-> s.location, strength |-> s.strength,
                  planned |-> planned, rested |-> TRUE, route |-> route]

(***************************************************************************)
(* ai/vision.py (and the same method in ai/ai.py): the scan                *)
(***************************************************************************)
\* the cells "for dx in range(-radius, radius + 1): for dy in ..." visits
\* and does not skip as out of bounds, in the order of the visit
RECURSIVE InVisitOrder(_)
InVisitOrder(S) ==
    IF S = {} THEN <<>>
    ELSE LET c == CHOOSE a \in S :
                    \A b \in S \ {a} : a[1] < b[1] \/ (a[1] = b[1] /\ a[2] < b[2])
         IN  <<c>> \o InVisitOrder(S \ {c})

Visited(pos, radius) ==
    InVisitOrder({c \in Cells : /\ Abs(c[1] - pos[1]) <= radius
                                /\ Abs(c[2] - pos[2]) <= radius})

\* an entry (pos, what, distance) of a list of the scan
Entry(pos, what, distance) == [pos |-> pos, what |-> what, distance |-> distance]

\* sorted with an insertion in front of the entries of equal distance
RECURSIVE sorted_unstable(_)
sorted_unstable(list) ==
    IF list = <<>> THEN <<>>
    ELSE LET s == sorted_unstable(SubSeq(list, 1, Len(list) - 1))
             e == list[Len(list)]
             k == Cardinality({i \in 1 .. Len(s) : s[i].distance < e.distance})
         IN  SubSeq(s, 1, k) \o <<e>> \o SubSeq(s, k + 1, Len(s))

\* sorted(list, key=lambda x: x[2]): a stable sort by distance
RECURSIVE sorted(_)
sorted(list) ==
    IF list = <<>> THEN <<>>
    ELSE LET s == sorted(SubSeq(list, 1, Len(list) - 1))
             e == list[Len(list)]
             k == Cardinality({i \in 1 .. Len(s) : s[i].distance <= e.distance})
         IN  SubSeq(s, 1, k) \o <<e>> \o SubSeq(s, k + 1, Len(s))

\* the traders appended for one cell: "for trader in self.world.traders"
RECURSIVE TradersAt(_, _, _, _)
TradersAt(world_traders, i, pos, distance) ==
    IF i > Len(world_traders) THEN <<>>
    ELSE (IF world_traders[i].location = pos /\ world_traders[i].alive
          THEN <<Entry(pos, i, distance)>> ELSE <<>>)
         \o TradersAt(world_traders, i + 1, pos, distance)

\* the body of the two loops for the cells of the visit from the i-th on
RECURSIVE ScanLoop(_, _, _, _, _, _, _)
ScanLoop(g, world_items, world_traders, player_pos, visit, i, acc) ==
    IF i > Len(visit) THEN acc
    ELSE LET pos == visit[i]
             distance == Abs(pos[1] - player_pos[1]) + Abs(pos[2] - player_pos[2])
             found == {it \in world_items : it.pos = pos}
             cost == move_cost(get_terrain(g, pos))
         IN  ScanLoop(g, world_items, world_traders, player_pos, visit, i + 1,
                [resources |-> IF found = {} THEN acc.resources
                               ELSE Append(acc.resources,
                                      Entry(pos, (CHOOSE it \in found : TRUE).kind, distance)),
                 traders |-> acc.traders \o TradersAt(world_traders, 1, pos, distance),
                 hazards |-> IF cost > 3
                             THEN Append(acc.hazards, Entry(pos, get_terrain(g, pos), distance))
                             ELSE acc.hazards,
                 safe_tiles |-> IF cost > 3 \/ cost >= Inf THEN acc.safe_tiles
                                ELSE Append(acc.safe_tiles, Entry(pos, cost, distance))])

\* Vision.scan_area
Vision_scan_area(g, world_items, world_traders, player_pos, radius) ==
    LET lists == ScanLoop(g, world_items, world_traders, player_pos,
                          Visited(player_pos, radius), 1,
                          [resources |-> <<>>, traders |-> <<>>,
                           hazards |-> <<>>, safe_tiles |-> <<>>])
    IN  [resources |-> sorted(lists.resources),
         hazards |-> sorted(lists.hazards),
         traders |-> sorted(lists.traders),
         safe_tiles |-> sorted(lists.safe_tiles)]

(***************************************************************************)
(* ai/brains.py: the four variants of the brain.  What decide_path gives   *)
(* back is a route, an action dictionary, None, or an exception.           *)
(***************************************************************************)
BrainKinds == {"Cautious", "Aggressive", "Balanced", "Opportunist"}

Route(route) == [kind |-> "route", route |-> route]
Action(action) == [kind |-> "action", action |-> action]
Raise(error) == [kind |-> "raise", error |-> error]
ReturnsNone == [kind |-> "none"]

\* x / max_items > hundredths / 100 and x / max_items < hundredths / 100
Above(x, hundredths, max_items) == 100 * x > hundredths * max_items
Under(x, hundredths, max_items) == 100 * x < hundredths * max_items

\* self.find_path_to('water', scan): find_path_to takes target_resource,
\* player_pos and scan, so the call lacks an argument
find_path_to_short == Raise("TypeError")

\* self._find_path_to(target): no class of brains.py defines _find_path_to
_find_path_to == Raise("AttributeError")

\* the radius of the scan of each variant
AggressiveRadius == 7
BalancedRadius == 6
OpportunistRadius == 8

AggressiveBrain_decide_path(g, its, world_traders, inv, str, player_pos) ==
    LET m == inv.max_items
        scanned == Vision_scan_area(g, its, world_traders, player_pos, AggressiveRadius)
    IN  IF Above(str, 85, m) THEN Action("rest")
        ELSE IF /\ scanned.traders # <<>>
                /\ Under(str, 70, m) /\ Under(inv.food, 70, m) /\ Under(inv.water, 70, m)
        THEN (IF scanned.traders[1].pos = player_pos THEN Action("trade")
              ELSE _find_path_to)
        ELSE IF Above(inv.water, 50, m) THEN find_path_to_short
        ELSE IF Above(inv.food, 50, m) THEN find_path_to_short
        ELSE IF scanned.resources # <<>> THEN _find_path_to
        ELSE IF scanned.safe_tiles # <<>> THEN _find_path_to
        ELSE ReturnsNone

BalancedBrain_decide_path(g, its, world_traders, inv, str, player_pos) ==
    LET m == inv.max_items
        scanned == Vision_scan_area(g, its, world_traders, player_pos, BalancedRadius)
        max_need == Max(str, Max(inv.food, inv.water))
    IN  IF Above(str, 60, m) THEN Action("rest")
        ELSE IF Above(max_need, 65, m) /\ inv.water = max_need THEN find_path_to_short
        ELSE IF Above(max_need, 65, m) /\ inv.food = max_need THEN find_path_to_short
        ELSE IF /\ scanned.traders # <<>>
                /\ Under(max_need, 50, m)
                /\ scanned.traders[1].pos = player_pos
        THEN Action("trade")
        ELSE IF /\ scanned.traders # <<>>
                /\ Under(max_need, 50, m)
                /\ scanned.traders[1].distance <= 3
        THEN _find_path_to
        ELSE IF Above(inv.water, 35, m) THEN find_path_to_short
        ELSE IF Above(inv.food, 35, m) THEN find_path_to_short
        ELSE IF scanned.resources # <<>> THEN _find_path_to
        ELSE IF scanned.safe_tiles # <<>> THEN _find_path_to
        ELSE Action("rest")

OpportunistBrain_decide_path(g, its, world_traders, inv, str, player_pos) ==
    LET m == inv.max_items
        scanned == Vision_scan_area(g, its, world_traders, player_pos, OpportunistRadius)
    IN  IF Above(str, 80, m) THEN Action("rest")
        ELSE IF Above(inv.water, 75, m) THEN find_path_to_short
        ELSE IF Above(inv.food, 75, m) THEN find_path_to_short
        ELSE IF scanned.traders # <<>>
        THEN (IF scanned.traders[1].pos = player_pos THEN Action("trade")
              ELSE _find_path_to)
        ELSE IF scanned.resources # <<>> THEN _find_path_to
        ELSE IF scanned.safe_tiles # <<>> THEN _find_path_to
        ELSE ReturnsNone

\* decide_path of the variant the player's brain is an instance of
decide_path(brain, g, its, world_traders, inv, str, player_pos) ==
    CASE brain = "Cautious" -> Route(CautiousBrain_decide_path(g, its, inv, str, player_pos))
      [] brain = "Aggressive" ->
           AggressiveBrain_decide_path(g, its, world_traders, inv, str, player_pos)
      [] brain = "Balanced" ->
           BalancedBrain_decide_path(g, its, world_traders, inv, str, player_pos)
      [] brain = "Opportunist" ->
           OpportunistBrain_decide_path(g, its, world_traders, inv, str, player_pos)

\* Brain.make_move on an empty path, for whatever decide_path gives back:
\* "self.path != []" holds of a dictionary and of None, and "self.path[0]"
\* then raises
Brain_make_move(decision, loc, str) ==
    CASE decision.kind = "raise" ->
           [raised |-> decision.error, path |-> <<>>, location |-> loc, strength |-> str]
      [] decision.kind = "action" ->
           [raised |-> "KeyError", path |-> <<>>, location |-> loc, strength |-> str]
      [] decision.kind = "none" ->
           [raised |-> "TypeError", path |-> <<>>, location |-> loc, strength |-> str]
      [] decision.kind = "route" ->
           LET r == make_move(<<>>, loc, str, decision.route)
           IN  [raised |-> "no", path |-> r.path, location |-> r.location,
                strength |-> r.strength]

(***************************************************************************)
(* items/base.py, items/bonuses.py: the items                              *)
(***************************************************************************)
\* FoodBonus, WaterBonus and GoldBonus extend Item, the fountain RepeatingItem
OneShotKinds == {"food", "water", "gold"}

\* the default amount of each class
ItemAmount(kind) ==
    CASE kind = "food" -> 10
      [] kind = "water" -> 10
      [] kind = "gold" -> 1
      [] kind = "foodFountain" -> 2

\* the counter an item fills
ItemResource(kind) == IF kind = "foodFountain" THEN "food" ELSE kind

\* apply(self, player, thisItem) of the four classes, called with the
\* positional arguments args: a call that does not bind both parameters
\* raises TypeError before the body runs
Item_apply(item, args, its, inv) ==
    IF Len(args) # 2
    THEN [raised |-> "TypeError", items |-> its, inv |-> inv]
    ELSE LET r == ItemResource(item.kind)
             filled == [inv EXCEPT ![r] = Min(inv.max_items, inv[r] + ItemAmount(item.kind))]
         IN  [raised |-> "no",
              items |-> IF item.kind \in OneShotKinds THEN its \ {args[2]} ELSE its,
              inv |-> filled]

\* Item.on_pickup and RepeatingItem.on_pickup: both start with
\* self.apply(player); the second then counts in times_used, an attribute
\* that __init__ never sets
on_pickup(item, its, inv) ==
    LET r == Item_apply(item, <<"player">>, its, inv)
        one_shot == item.kind \in OneShotKinds
    IN  [raised |-> IF r.raised # "no" THEN r.raised
                    ELSE IF one_shot THEN "no" ELSE "AttributeError",
         items |-> r.items,
         inv |-> r.inv,
         returned |-> IF r.raised = "no" /\ one_shot THEN "True" ELSE "none"]

(***************************************************************************)
(* The grids a session can be created with: plains with at most MaxRough   *)
(* cells of another kind.                                                  *)
(***************************************************************************)
RoughKinds == {"Forest", "Mountain", Impassable}

GridOf(S, f) == [c \in Cells |-> IF c \in S THEN f[c] ELSE "Plains"]

\* the corners of the grid
Corners == {<<0, 0>>, <<GridW - 1, 0>>, <<0, GridH - 1>>, <<GridW - 1, GridH - 1>>}

\* the grid in which every neighbour of the cell c is impassable
Walled(c) ==
    LET N == {n \in Cells : _heuristic(c, n) = 1}
    IN  GridOf(N, [n \in N |-> Impassable])

EnclosedGrids == {Walled(c) : c \in Corners}

\* plains with one cell of another kind
OneRoughGrids == {GridOf({c}, [x \in {c} |-> k]) : c \in Cells, k \in RoughKinds}

(***************************************************************************)
(* What a session is constructed with (Game.setup, Game.place_traders).    *)
(***************************************************************************)
PlainGrid == [c \in Cells |-> "Plains"]

Inventory(gold, food, water, max_items) ==
    [gold |-> gold, food |-> food, water |-> water, max_items |-> max_items]

SetupPlayerInventory == Inventory(12, 12, 12, PlayerMaxItems)
SetupTraderInventory == Inventory(100, 50, 50, TraderMaxItems)

AStarIdle == [status |-> "idle"]

WorldAtRest == grid = PlainGrid /\ astar = AStarIdle
LedgerAtRest == inventory = SetupPlayerInventory /\ call = NoCall
TradeAtRest == traderInv = SetupTraderInventory /\ traderKind = "Trader" /\ trade = NoTrade

NoScan == [status |-> "idle"]

NoTurn == [op |-> "none", turns |-> 0, keys |-> 0, route |-> <<>>, step |-> 0]

SessionAtRest ==
    /\ items = {}
    /\ location = <<0, 0>>
    /\ strength = 10
    /\ path = <<>>
    /\ turn = NoTurn
    /\ traders = <<>>
    /\ scan = NoScan

(***************************************************************************)
(* Specification of a session: a world with items, the player with its     *)
(* needs, then the turns of the brain (Game.on_update) and the keys of the *)
(* keyboard (Game.handle_game_input).                                      *)
(***************************************************************************)
\* the player's cell at setup
StartLocation == <<0, 0>>

SessionGrids ==
    {PlainGrid} \cup {GridOf({<<1, 0>>}, [c \in {<<1, 0>>} |-> k]) : k \in {"Mountain", Impassable}}

\* place_items puts no item on the player's cell
ItemCells == Cells \ {StartLocation}

SessionItems ==
    {{}} \cup {{Item("water", w)} : w \in ItemCells}
         \cup {{Item("water", w), Item("food", <<0, GridH - 1>>)} : w \in ItemCells}

Init ==
    /\ grid \in SessionGrids
    /\ items \in SessionItems
    /\ location = StartLocation
    /\ strength \in {8, 9, 22}
    /\ \E w \in {6, 15, 24}, f \in {6, 24} : inventory = Inventory(12, f, w, PlayerMaxItems)
    /\ path = <<>>
    /\ turn = NoTurn
    /\ traders = <<>>
    /\ scan = NoScan
    /\ astar = AStarIdle
    /\ call = NoCall
    /\ TradeAtRest

\* Game.on_update: one turn of the brain
OnUpdate ==
    /\ turn.turns < MaxTurns
    /\ LET r == make_move(path, location, strength,
                          CautiousBrain_decide_path(grid, items, inventory, strength, location))
       IN  /\ path' = r.path
           /\ location' = r.location
           /\ strength' = r.strength
           /\ turn' = [op |-> "make_move", turns |-> turn.turns + 1, keys |-> turn.keys,
                       entry |-> path, from |-> location, planned |-> r.planned,
                       rested |-> r.rested,
                       route |-> IF r.planned THEN r.route ELSE turn.route,
                       step |-> IF r.rested THEN 0
                                ELSE IF r.planned THEN 1 ELSE turn.step + 1]
    /\ UNCHANGED <<grid, astar, items, traders, scan, ledgerVars, tradeVars>>

Keys == {"LEFT", "RIGHT", "UP", "DOWN", "SPACE"}

\* Game.handle_game_input
handle_game_input(loc, str, symbol) ==
    LET new == CASE symbol = "LEFT" -> <<loc[1] - 1, loc[2]>>
                 [] symbol = "RIGHT" -> <<loc[1] + 1, loc[2]>>
                 [] symbol = "UP" -> <<loc[1], loc[2] + 1>>
                 [] symbol = "DOWN" -> <<loc[1], loc[2] - 1>>
                 [] OTHER -> loc
    IN  IF str <= 0 THEN [location |-> loc, strength |-> str]
        ELSE set_location(str, new)

HandleGameInput ==
    /\ turn.keys < MaxKeys
    /\ \E symbol \in Keys :
          LET r == handle_game_input(location, strength, symbol) IN
          /\ location' = r.location
          /\ strength' = r.strength
          /\ turn' = [turn EXCEPT !.op = "key", !.keys = @ + 1]
    /\ UNCHANGED <<path, grid, astar, items, traders, scan, ledgerVars, tradeVars>>

Next == OnUpdate \/ HandleGameInput

Spec == Init /\ [][Next]_vars

(***************************************************************************)
(* Specification of the search: any grid, start and goal, then one call.   *)
(***************************************************************************)
\* plains with at most MaxRough cells of another kind
RoughGrids ==
    UNION {{GridOf(S, f) : f \in [S -> RoughKinds]} :
             S \in {T \in SUBSET Cells : Cardinality(T) <= MaxRough}}

InitAStar ==
    /\ grid \in RoughGrids \cup EnclosedGrids
    /\ astar = AStarIdle
    /\ LedgerAtRest
    /\ TradeAtRest
    /\ SessionAtRest

CallAStar ==
    /\ astar.status = "idle"
    /\ \E start \in Cells, goal \in Cells :
          LET r == _a_star_path(grid, start, goal) IN
          astar' = [status |-> "done", start |-> start, goal |-> goal,
                    path |-> r.path, total_cost |-> r.total_cost]
    /\ UNCHANGED <<grid, ledgerVars, tradeVars, sessionVars>>

NextAStar == CallAStar

SpecAStar == InitAStar /\ [][NextAStar]_vars

(***************************************************************************)
(* Specification of the search, one iteration of its loop at a time: any   *)
(* grid, start and goal, then the pops of "while frontier" and the return. *)
(***************************************************************************)
InitSearch ==
    /\ grid \in RoughGrids \cup EnclosedGrids
    /\ astar = AStarIdle
    /\ LedgerAtRest
    /\ TradeAtRest
    /\ SessionAtRest

\* lines 143-147
BeginSearch ==
    /\ astar.status = "idle"
    /\ \E start \in Cells, goal \in Cells :
          astar' = [status |-> "running", start |-> start, goal |-> goal,
                    st |-> AStarStart(start, goal),
                    before |-> {}, popped |-> <<0, NonePos>>]
    /\ UNCHANGED <<grid, ledgerVars, tradeVars, sessionVars>>

\* lines 149-169: one iteration
StepSearch ==
    /\ astar.status = "running"
    /\ astar.st.frontier # {} /\ ~astar.st.done
    /\ astar' = [astar EXCEPT !.st = AStarStep(grid, @, astar.goal),
                              !.before = astar.st.frontier,
                              !.popped = heappop(astar.st.frontier)]
    /\ UNCHANGED <<grid, ledgerVars, tradeVars, sessionVars>>

\* lines 173-191: the loop has ended
FinishSearch ==
    /\ astar.status = "running"
    /\ astar.st.frontier = {} \/ astar.st.done
    /\ LET r == AStarResult(astar.st, astar.start, astar.goal) IN
       astar' = [status |-> "done", start |-> astar.start, goal |-> astar.goal,
                 path |-> r.path, total_cost |-> r.total_cost]
    /\ UNCHANGED <<grid, ledgerVars, tradeVars, sessionVars>>

NextSearch == BeginSearch \/ StepSearch \/ FinishSearch

SpecSearch == InitSearch /\ [][NextSearch]_vars

\* the search as the interpreter runs it: _a_star_path is synchronous code,
\* so an iteration that can run does run, and so does the return after the
\* loop; nothing obliges a search to be started.
\* plains with one corner of another kind
CornerGrids == {GridOf({c}, [x \in {c} |-> k]) : c \in Corners, k \in RoughKinds}

InitSearchFair ==
    /\ grid \in {PlainGrid} \cup CornerGrids \cup EnclosedGrids
    /\ astar = AStarIdle
    /\ LedgerAtRest
    /\ TradeAtRest
    /\ SessionAtRest

SpecSearchFair ==
    InitSearchFair /\ [][NextSearch]_vars /\ WF_vars(StepSearch) /\ WF_vars(FinishSearch)

(***************************************************************************)
(* Specification of the choice of a target: any grid, position of the      *)
(* player and list of candidates of a scan, then one call of find_path_to. *)
(***************************************************************************)
\* the positions of a scan's entries: no position twice, nearest first
CandidateLists(player_pos) ==
    {<<>>} \cup {<<a>> : a \in Cells}
           \cup {<<c[1], c[2]>> :
                   c \in {d \in Cells \X Cells :
                            /\ d[1] # d[2]
                            /\ _heuristic(player_pos, d[1]) <= _heuristic(player_pos, d[2])}}

InitFind ==
    /\ grid \in {PlainGrid} \cup OneRoughGrids \cup EnclosedGrids
    /\ astar = AStarIdle
    /\ LedgerAtRest
    /\ TradeAtRest
    /\ SessionAtRest

CallFindPathTo ==
    /\ astar.status = "idle"
    /\ \E player_pos \in Cells :
         \E candidates \in CandidateLists(player_pos) :
            astar' = [status |-> "found", start |-> player_pos, candidates |-> candidates,
                      path |-> find_path_to(grid, candidates, player_pos)]
    /\ UNCHANGED <<grid, ledgerVars, tradeVars, sessionVars>>

NextFind == CallFindPathTo

SpecFind == InitFind /\ [][NextFind]_vars

(***************************************************************************)
(* Specification of the scan: a world with items and traders, the player   *)
(* on any cell, then one call of scan_area with any radius.                *)
(***************************************************************************)
\* world.items holds one item per position
VisionItems ==
    {{}} \cup {{Item("water", a)} : a \in Cells}
         \cup {{Item("water", c[1]), Item("food", c[2])} :
                 c \in {d \in Cells \X Corners : d[1] # d[2]}}

TraderAt(pos, alive) == [location |-> pos, alive |-> alive]

VisionTraders ==
    {<<>>} \cup {<<TraderAt(a, alive), TraderAt(b, TRUE)>> :
                   a \in Corners, b \in {<<0, 0>>, <<GridW - 1, GridH - 1>>},
                   alive \in BOOLEAN}

InitVision ==
    /\ grid \in {PlainGrid} \cup EnclosedGrids
    /\ items \in VisionItems
    /\ traders \in VisionTraders
    /\ location \in Cells
    /\ scan = NoScan
    /\ strength = 10
    /\ path = <<>>
    /\ turn = NoTurn
    /\ astar = AStarIdle
    /\ LedgerAtRest
    /\ TradeAtRest

CallScanArea ==
    /\ scan.status = "idle"
    /\ \E radius \in 0 .. MaxRadius :
          scan' = [status |-> "done", radius |-> radius,
                   lists |-> Vision_scan_area(grid, items, traders, location, radius)]
    /\ UNCHANGED <<worldVars, ledgerVars, tradeVars,
                   items, location, strength, path, turn, traders>>

NextVision == CallScanArea

SpecVision == InitVision /\ [][NextVision]_vars

(***************************************************************************)
(* Specification of the ledger: any inventory within its cap, then any     *)
(* sequence of add, spend and balance.                                     *)
(***************************************************************************)
AnyResource == Resources \cup {UnknownResource}

InitInventory ==
    /\ \E m \in 1 .. MaxItems :
         \E g \in 0 .. m, f \in 0 .. m, w \in 0 .. m : inventory = Inventory(g, f, w, m)
    /\ call = NoCall
    /\ WorldAtRest
    /\ TradeAtRest
    /\ SessionAtRest

Add ==
    /\ \E resource \in AnyResource, amount \in 0 .. MaxAmount :
          LET r == add(inventory, resource, amount) IN
          /\ inventory' = r.inv
          /\ call' = [op |-> "add", resource |-> resource, amount |-> amount,
                      before |-> inventory, raised |-> r.raised]
    /\ UNCHANGED <<worldVars, tradeVars, sessionVars>>

Spend ==
    /\ \E resource \in AnyResource, amount \in 0 .. MaxAmount :
          LET r == spend(inventory, resource, amount) IN
          /\ inventory' = r.inv
          /\ call' = [op |-> "spend", resource |-> resource, amount |-> amount,
                      before |-> inventory, raised |-> FALSE, returned |-> r.ok]
    /\ UNCHANGED <<worldVars, tradeVars, sessionVars>>

Balance ==
    /\ \E resource \in AnyResource :
          call' = [op |-> "balance", resource |-> resource, amount |-> 0,
                   before |-> inventory, raised |-> FALSE,
                   returned |-> balance(inventory, resource)]
    /\ UNCHANGED <<inventory, worldVars, tradeVars, sessionVars>>

NextInventory == Add \/ Spend \/ Balance

SpecInventory == InitInventory /\ [][NextInventory]_vars

(***************************************************************************)
(* Specification of the negotiation: a player and a trader with any of a   *)
(* family of inventories, then one call of a method of the protocol.       *)
(***************************************************************************)
Quantities == (0 .. MaxQty) \cup {CounterLimit, CounterLimit + 1, 2 * CounterLimit + 2}

Offers == {Offer(i, q) : i \in Resources, q \in Quantities}

\* the offers of a proposal: at least one unit on each side
Proposals == {o \in Offers : o.quantity >= 1}

PlayerInventories ==
    {Inventory(g, 12, w, PlayerMaxItems) : g \in {0, 1, 4, 12}, w \in {0, 12, PlayerMaxItems}}

TraderInventories ==
    {Inventory(g, 50, w, TraderMaxItems) : g \in {0, 3, 100}, w \in {0, 3, 20}}

InitTrade ==
    /\ inventory \in PlayerInventories
    /\ traderInv \in TraderInventories
    /\ traderKind \in {"Trader", "GreedyTrader"}
    /\ trade = NoTrade
    /\ call = NoCall
    /\ WorldAtRest
    /\ SessionAtRest

EvaluateTradeOffer ==
    /\ trade.op = "none"
    /\ \E presenting \in Offers, requesting \in Offers :
          trade' = [op |-> "evaluate", presenting |-> presenting, requesting |-> requesting,
                    playerBefore |-> inventory, traderBefore |-> traderInv,
                    returned |-> evaluate_trade_offer(traderKind, traderInv, presenting, requesting)]
    /\ UNCHANGED <<inventory, call, traderInv, traderKind, worldVars, sessionVars>>

CounterTradeOffer ==
    /\ trade.op = "none"
    /\ \E presenting \in Offers, requesting \in Offers :
          trade' = [op |-> "counter", presenting |-> presenting, requesting |-> requesting,
                    playerBefore |-> inventory, traderBefore |-> traderInv,
                    returned |-> counter_trade_offer(traderKind, traderInv, presenting, requesting)]
    /\ UNCHANGED <<inventory, call, traderInv, traderKind, worldVars, sessionVars>>

ProposeTrade ==
    /\ trade.op = "none"
    /\ \E presenting \in Proposals, requesting \in Proposals :
          LET r == propose_trade(inventory, traderInv, traderKind, presenting, requesting) IN
          /\ inventory' = r.player
          /\ traderInv' = r.trader
          /\ trade' = [op |-> "propose", presenting |-> presenting, requesting |-> requesting,
                       playerBefore |-> inventory, traderBefore |-> traderInv,
                       accepted |-> r.accepted, counter |-> r.counter, outcome |-> r.outcome]
    /\ UNCHANGED <<call, traderKind, worldVars, sessionVars>>

NextTrade == EvaluateTradeOffer \/ CounterTradeOffer \/ ProposeTrade

SpecTrade == InitTrade /\ [][NextTrade]_vars

(***************************************************************************)
(* Specification of the variants: a world with items and traders, a player *)
(* with any needs and an empty path, then one turn of a brain of any       *)
(* variant.                                                                *)
(***************************************************************************)
BrainGrids == {PlainGrid, Walled(<<0, 0>>)}

BrainItems == {{}, {Item("water", <<GridW - 1, 0>>)},
               {Item("water", <<0, 0>>), Item("food", <<GridW - 1, GridH - 1>>)},
               {Item("food", <<0, 0>>), Item("water", <<GridW - 1, GridH - 1>>)}}

BrainTraders == {<<>>, <<TraderAt(<<0, 0>>, TRUE)>>, <<TraderAt(<<GridW - 1, GridH - 1>>, TRUE)>>}

InitBrains ==
    /\ grid \in BrainGrids
    /\ items \in BrainItems
    /\ traders \in BrainTraders
    /\ location \in {c \in {<<0, 0>>, <<1, 0>>} : move_cost(grid[c]) < Inf}
    /\ strength \in {8, 14, 20, 23, 27}
    /\ \E f \in {6, 16, 23}, w \in {6, 11, 16, 23, 30} :
          inventory = Inventory(12, f, w, PlayerMaxItems)
    /\ path = <<>>
    /\ turn = NoTurn
    /\ scan = NoScan
    /\ astar = AStarIdle
    /\ call = NoCall
    /\ TradeAtRest

\* Game.on_update with a brain of the variant
BrainTurn ==
    /\ turn.op = "none"
    /\ \E brain \in BrainKinds :
          LET decision == decide_path(brain, grid, items, traders, inventory,
                                      strength, location)
              r == Brain_make_move(decision, location, strength)
          IN  /\ path' = r.path
              /\ location' = r.location
              /\ strength' = r.strength
              /\ turn' = [op |-> "make_move", brain |-> brain, from |-> location,
                          needs |-> _assess_needs(inventory, strength),
                          decision |-> decision, raised |-> r.raised]
    /\ UNCHANGED <<grid, astar, items, traders, scan, ledgerVars, tradeVars>>

NextBrains == BrainTurn

SpecBrains == InitBrains /\ [][NextBrains]_vars

(***************************************************************************)
(* Specification of the items: a world with items, the player on any cell, *)
(* then moves of the player and pickups of the items on its cell.          *)
(***************************************************************************)
ItemSets ==
    {{Item(k[1], c[1]), Item(k[2], c[2])} :
        k \in {<<"food", "foodFountain">>, <<"water", "gold">>,
               <<"foodFountain", "water">>},
        c \in {d \in ItemCells \X ItemCells : d[1] # d[2]}}

NoPickup == [op |-> "none"]

InitItems ==
    /\ grid = PlainGrid
    /\ items \in ItemSets
    /\ location = StartLocation
    /\ strength = MaxTurns
    /\ \E f \in {12, 27} : inventory = Inventory(12, f, 12, PlayerMaxItems)
    /\ turn = NoPickup
    /\ path = <<>>
    /\ traders = <<>>
    /\ scan = NoScan
    /\ astar = AStarIdle
    /\ call = NoCall
    /\ TradeAtRest

\* a move of the player to a cell of the grid
MoveTo ==
    /\ \E symbol \in Keys \ {"SPACE"} :
          LET r == handle_game_input(location, strength, symbol) IN
          /\ r.location # location
          /\ in_bounds(r.location)
          /\ location' = r.location
          /\ strength' = r.strength
    /\ turn' = NoPickup
    /\ UNCHANGED <<path, grid, astar, items, traders, scan, ledgerVars, tradeVars>>

\* item.on_pickup(player) for an item on the player's cell
OnPickup ==
    /\ \E item \in {it \in items : it.pos = location} :
          LET r == on_pickup(item, items, inventory) IN
          /\ items' = r.items
          /\ inventory' = r.inv
          /\ turn' = [op |-> "on_pickup", item |-> item, itemsBefore |-> items,
                      before |-> inventory, raised |-> r.raised]
    /\ UNCHANGED <<location, strength, path, grid, astar, traders, scan, call, tradeVars>>

\* item.apply(player, item) for an item on the player's cell
Apply ==
    /\ \E item \in {it \in items : it.pos = location} :
          LET r == Item_apply(item, <<"player", item>>, items, inventory) IN
          /\ items' = r.items
          /\ inventory' = r.inv
          /\ turn' = [op |-> "apply", item |-> item, itemsBefore |-> items,
                      before |-> inventory, raised |-> r.raised]
    /\ UNCHANGED <<location, strength, path, grid, astar, traders, scan, call, tradeVars>>

NextItems == MoveTo \/ OnPickup \/ Apply

SpecItems == InitItems /\ [][NextItems]_vars

(***************************************************************************)
(* Specification of a meeting: a player next to a trader or elsewhere,     *)
(* then one call of is_at_trader_location.                                 *)
(***************************************************************************)
MeetingInventories ==
    {Inventory(g, 3, w, PlayerMaxItems) : g \in {1, 2, 5, 10}, w \in {0, 3}}

MeetingTraderInventories ==
    {Inventory(100, 50, w, TraderMaxItems) : w \in {0, 3, 50}}

InitMeeting ==
    /\ inventory \in MeetingInventories
    /\ traderInv \in MeetingTraderInventories
    /\ traderKind \in {"Trader", "GreedyTrader"}
    /\ traders = <<TraderAt(<<1, 0>>, TRUE)>>
    /\ location \in Cells \ {<<1, 0>>}
    /\ trade = NoTrade
    /\ call = NoCall
    /\ WorldAtRest
    /\ items = {}
    /\ strength = 10
    /\ path = <<>>
    /\ turn = NoTurn
    /\ scan = NoScan

\* Player.is_at_trader_location
IsAtTraderLocation ==
    /\ trade.op = "none"
    /\ NextToTrader(location, traders[1].location)
    /\ \E proposal \in RandomProposals(inventory) :
          LET r == propose_trade(inventory, traderInv, traderKind, proposal[1], proposal[2]) IN
          /\ inventory' = r.player
          /\ traderInv' = r.trader
          /\ trade' = [op |-> "propose", presenting |-> proposal[1],
                       requesting |-> proposal[2],
                       playerBefore |-> inventory, traderBefore |-> traderInv,
                       accepted |-> r.accepted, counter |-> r.counter, outcome |-> r.outcome]
    /\ UNCHANGED <<call, traderKind, worldVars, sessionVars>>

NextMeeting == IsAtTraderLocation

SpecMeeting == InitMeeting /\ [][NextMeeting]_vars

(***************************************************************************)
(* Specification of a march: a player with little strength and a small     *)
(* inventory, so that a route to an item is as long as the strength it is  *)
(* planned with, then the turns of the brain alone.                        *)
(***************************************************************************)
InitMarch ==
    /\ grid \in SessionGrids
    /\ \E w \in ItemCells : items = {Item("water", w)}
    /\ location = StartLocation
    /\ strength \in 1 .. MaxItems
    /\ \E f \in 0 .. MaxItems, w \in 0 .. 1 : inventory = Inventory(0, f, w, MaxItems)
    /\ path = <<>>
    /\ turn = NoTurn
    /\ traders = <<>>
    /\ scan = NoScan
    /\ astar = AStarIdle
    /\ call = NoCall
    /\ TradeAtRest

NextMarch == OnUpdate

SpecMarch == InitMarch /\ [][NextMarch]_vars

(***************************************************************************)
(* The turns of the brain                                                  *)
(***************************************************************************)
\* C1: a call of make_move plans iff the route was empty on entry; then, if
\* the route is not empty, the player is moved to its first position and
\* exactly that position is removed from the front; if it is still empty,
\* the player rests and stays where it was.
C1_MakeMoveStep ==
    turn.op = "make_move"
    => /\ turn.planned <=> turn.entry = <<>>
       /\ LET route == IF turn.planned THEN turn.route ELSE turn.entry IN
          IF route # <<>>
          THEN /\ ~turn.rested
               /\ location = route[1]
               /\ path = Tail(route)
          ELSE /\ turn.rested
               /\ location = turn.from
               /\ path = <<>>

\* a turn that planned a route of two positions and took the first
C1_Witness ==
    /\ turn.op = "make_move"
    /\ turn.planned
    /\ turn.from = <<0, 0>>
    /\ turn.route = << <<1, 0>>, <<2, 0>> >>
    /\ location = <<1, 0>>
    /\ path = << <<2, 0>> >>

\* C2: after decide_path returned a route, the calls of make_move move the
\* player to its positions in order, one per turn, and decide_path is not
\* called again before the route is empty.
C2_RouteCommitment ==
    (turn.op = "make_move" /\ ~turn.rested)
    => /\ turn.step \in 1 .. Len(turn.route)
       /\ location = turn.route[turn.step]
       /\ path = SubSeq(turn.route, turn.step + 1, Len(turn.route))
       /\ turn.planned <=> turn.step = 1
       /\ turn.planned => turn.entry = <<>>

\* the third turn on a route of three positions
C2_Witness ==
    /\ turn.op = "make_move"
    /\ Len(turn.route) = 3
    /\ turn.step = 3
    /\ ~turn.planned
    /\ location = turn.route[3]
    /\ path = <<>>

(***************************************************************************)
(* The least cost of a 4-connected route, independent of the search above. *)
(* D is a set of pairs <<cell, k>>, one per cell: after n rounds k is the  *)
(* least cost of a route of at most n moves from the start that ends in    *)
(* the cell (Inf when there is none).  A route that visits no cell twice   *)
(* has fewer moves than there are cells, and costs are positive.           *)
(***************************************************************************)
MinOf(S) == CHOOSE m \in S : \A n \in S : m <= n

\* one move apart on the 4-connected grid
OneMove(a, b) ==
    \/ a[1] = b[1] /\ (a[2] = b[2] + 1 \/ b[2] = a[2] + 1)
    \/ a[2] = b[2] /\ (a[1] = b[1] + 1 \/ b[1] = a[1] + 1)

CostIn(D, c) == (CHOOSE r \in D : r[1] = c)[2]

RouteRound(g, D) ==
    {<<r[1], IF ~in_bounds(r[1]) \/ move_cost(g[r[1]]) = Inf
             THEN r[2]
             ELSE MinOf({r[2]} \cup
                        {q[2] + move_cost(g[r[1]]) :
                           q \in {p \in D : p[2] < Inf /\ OneMove(p[1], r[1])}})>> :
       r \in D}

RECURSIVE RouteRounds(_, _, _)
RouteRounds(g, D, n) ==
    IF n = 0 THEN D
    ELSE LET E == RouteRound(g, D) IN IF E = D THEN D ELSE RouteRounds(g, E, n - 1)

MinRouteCost(g, start, goal) ==
    LET dom == Cells \cup {start}
        D0 == {<<c, IF c = start THEN 0 ELSE Inf>> : c \in dom}
    IN  CostIn(RouteRounds(g, D0, Cardinality(dom)), goal)

C4_LedgerBounds ==
    \A r \in Resources : 0 <= inventory[r] /\ inventory[r] <= inventory.max_items

\* an add that the cap cut short
C4_Witness ==
    /\ call.op = "add"
    /\ call.resource = "water"
    /\ call.before.water + call.amount > inventory.max_items
    /\ inventory.water = inventory.max_items

\* C5: spend of more than the counter holds returns False, raises nothing
\* and changes no counter; otherwise it returns True and lowers exactly the
\* counter of that resource by the amount.
C5_SpendContract ==
    (call.op = "spend" /\ call.resource \in Resources)
    => /\ ~call.raised
       /\ inventory.max_items = call.before.max_items
       /\ IF call.amount > call.before[call.resource]
          THEN /\ call.returned = FALSE
               /\ \A r \in Resources : inventory[r] = call.before[r]
          ELSE /\ call.returned = TRUE
               /\ inventory[call.resource] = call.before[call.resource] - call.amount
               /\ \A r \in Resources \ {call.resource} : inventory[r] = call.before[r]

\* a spend that the balance does not cover
C5_Witness ==
    /\ call.op = "spend"
    /\ call.resource = "food"
    /\ call.amount = 2
    /\ call.before.food = 1
    /\ call.returned = FALSE
    /\ inventory.food = 1

(***************************************************************************)
(* The negotiation                                                         *)
(***************************************************************************)
\* the terms a settled trade is settled on
SettledTerms ==
    IF trade.outcome = "original"
    THEN [item_given |-> trade.presenting.item, quantity_given |-> trade.presenting.quantity,
          item |-> trade.requesting.item, quantity |-> trade.requesting.quantity]
    ELSE [item_given |-> trade.counter.item_given, quantity_given |-> trade.counter.quantity_given,
          item |-> trade.counter.item, quantity |-> trade.counter.quantity]

Settled == trade.op = "propose" /\ trade.outcome \in {"original", "counter"}

\* C6: a settlement is all-or-nothing: if either side holds less than it
\* has to spend, no counter of either inventory changes; otherwise each
\* side spends what it gives and adds what it receives.
C6_SettlementAllOrNothing ==
    Settled =>
      LET t == SettledTerms IN
      IF trade.playerBefore[t.item_given] < t.quantity_given
            \/ trade.traderBefore[t.item] < t.quantity
      THEN inventory = trade.playerBefore /\ traderInv = trade.traderBefore
      ELSE /\ inventory = add(spend(trade.playerBefore, t.item_given, t.quantity_given).inv,
                              t.item, t.quantity).inv
           /\ traderInv = add(spend(trade.traderBefore, t.item, t.quantity).inv,
                              t.item_given, t.quantity_given).inv

\* C7: the standard trader accepts iff it holds the requested quantity and
\* twice the offered quantity is at least the requested quantity.
C7_TraderAccepts ==
    (trade.op = "evaluate" /\ traderKind = "Trader")
    => (trade.returned = TRUE
          <=> /\ traderInv[trade.requesting.item] >= trade.requesting.quantity
              /\ 2 * trade.presenting.quantity >= trade.requesting.quantity)

\* 20 water in stock, 3 gold for 5 water: accepted
C7_Witness ==
    /\ trade.op = "evaluate" /\ traderKind = "Trader"
    /\ traderInv.water = 20
    /\ trade.presenting = Offer("gold", 3)
    /\ trade.requesting = Offer("water", 5)
    /\ trade.returned = TRUE

\* C8: the greedy trader accepts iff it holds the requested quantity and
\* the offered quantity is at least the requested quantity.
C8_GreedyAccepts ==
    (trade.op = "evaluate" /\ traderKind = "GreedyTrader")
    => (trade.returned = TRUE
          <=> /\ traderInv[trade.requesting.item] >= trade.requesting.quantity
              /\ trade.presenting.quantity >= trade.requesting.quantity)

\* 20 water in stock, 5 gold for 5 water: accepted
C8_Witness ==
    /\ trade.op = "evaluate" /\ traderKind = "GreedyTrader"
    /\ traderInv.water = 20
    /\ trade.presenting = Offer("gold", 5)
    /\ trade.requesting = Offer("water", 5)
    /\ trade.returned = TRUE

\* C9: with a stock s >= 1 of the requested resource and a requested
\* quantity >= 1, the quantity a counter-offer gives is at most s.
C9_CounterWithinStock ==
    (trade.op = "counter"
        /\ traderInv[trade.requesting.item] >= 1
        /\ trade.requesting.quantity >= 1)
    => /\ trade.returned # NoCounter
       /\ trade.returned.quantity <= traderInv[trade.requesting.item]

\* a stock of 3 and a request for more than 3
C9_Witness ==
    /\ trade.op = "counter"
    /\ traderInv.water = 3
    /\ trade.requesting = Offer("water", 5)
    /\ trade.returned.quantity = 3

\* C10: counter_trade_offer returns None iff the trader holds none of the
\* requested resource; any counter-offer names the resource kinds of the
\* proposal.
C10_CounterNoneIffNoStock ==
    trade.op = "counter"
    => /\ trade.returned = NoCounter <=> traderInv[trade.requesting.item] <= 0
       /\ trade.returned # NoCounter
            => /\ trade.returned.item = trade.requesting.item
               /\ trade.returned.item_given = trade.presenting.item

\* no water in stock, water requested: None
C10_Witness ==
    /\ trade.op = "counter"
    /\ traderInv.water = 0
    /\ trade.requesting.item = "water"
    /\ trade.requesting.quantity >= 1
    /\ trade.returned = NoCounter

\* C11 as the specification states it: the standard trader halves the
\* requested quantity (floor, at least 1, capped by the stock) and scales
\* the offered quantity in the same proportion, at least 1.
C11_CounterHalved ==
    (trade.op = "counter" /\ traderKind = "Trader"
        /\ traderInv[trade.requesting.item] >= 1 /\ trade.requesting.quantity >= 1)
    => LET g == trade.presenting.quantity
           r == trade.requesting.quantity
           q == Max(1, Min(r \div 2, traderInv[trade.requesting.item]))
       IN  /\ trade.returned.quantity = q
           /\ trade.returned.quantity_given >= Max(1, (g * q) \div r)
           /\ trade.returned.quantity_given <= Max(1, (g * q + r - 1) \div r)

\* C11, amended: with a stock s >= 1 the standard trader's counter-offer
\* gives min(r, s) of the requested kind and demands half of that, rounded
\* up and at least 1, of the offered kind, whatever the player offered.
C11_CounterTerms ==
    (trade.op = "counter" /\ traderKind = "Trader"
        /\ traderInv[trade.requesting.item] >= 1)
    => LET q == Min(trade.requesting.quantity, traderInv[trade.requesting.item])
       IN  /\ trade.returned.quantity = q
           /\ trade.returned.quantity_given = Max(1, (q + 1) \div 2)

\* 20 water in stock, 1 gold for 5 water: 5 water for 3 gold
C11_Witness ==
    /\ trade.op = "counter" /\ traderKind = "Trader"
    /\ traderInv.water = 20
    /\ trade.presenting = Offer("gold", 1)
    /\ trade.requesting = Offer("water", 5)
    /\ trade.returned.quantity = 5
    /\ trade.returned.quantity_given = 3

\* C12: with a stock s >= 1 the greedy trader's counter-offer gives
\* max(1, min(floor(r / 2), s)) of the requested kind and demands exactly r
\* of the offered kind, whatever the player offered.
C12_GreedyCounterTerms ==
    (trade.op = "counter" /\ traderKind = "GreedyTrader"
        /\ traderInv[trade.requesting.item] >= 1)
    => LET r == trade.requesting.quantity
       IN  /\ trade.returned.quantity = Max(1, Min(r \div 2, traderInv[trade.requesting.item]))
           /\ trade.returned.quantity_given = r

\* 20 water in stock, 1 gold for 5 water: 2 water for 5 gold
C12_Witness ==
    /\ trade.op = "counter" /\ traderKind = "GreedyTrader"
    /\ traderInv.water = 20
    /\ trade.presenting = Offer("gold", 1)
    /\ trade.requesting = Offer("water", 5)
    /\ trade.returned.quantity = 2
    /\ trade.returned.quantity_given = 5

\* the trader of the proposal accepts the original terms
ProposalAccepted ==
    /\ trade.traderBefore[trade.requesting.item] >= trade.requesting.quantity
    /\ IF traderKind = "GreedyTrader"
       THEN trade.presenting.quantity >= trade.requesting.quantity
       ELSE 2 * trade.presenting.quantity >= trade.requesting.quantity

\* the quantity the trader of the proposal would counter with
ProposalCounterQuantity ==
    LET r == trade.requesting.quantity
        s == trade.traderBefore[trade.requesting.item]
    IN  IF traderKind = "GreedyTrader" THEN Max(1, Min(r \div 2, s)) ELSE Min(r, s)

\* C13: a call of propose_trade settles on the original terms iff the
\* trader accepts them; otherwise on the counter-offer's terms iff there is
\* a counter-offer (the trader holds some of the requested kind) and its
\* quantity is <= 10; otherwise neither inventory changes.
C13_OneSettlement ==
    trade.op = "propose"
    => LET p == trade.presenting
           r == trade.requesting
           counters == trade.traderBefore[r.item] > 0
       IN  IF ProposalAccepted
           THEN /\ trade.outcome = "original"
                /\ inventory = update_inventory_after_trade(trade.playerBefore,
                                   p.item, p.quantity, r.item, r.quantity)
           ELSE IF counters /\ ProposalCounterQuantity <= CounterLimit
           THEN /\ trade.outcome = "counter"
                /\ trade.counter.quantity = ProposalCounterQuantity
                /\ inventory = update_inventory_after_trade(trade.playerBefore,
                                   trade.counter.item_given, trade.counter.quantity_given,
                                   trade.counter.item, trade.counter.quantity)
           ELSE /\ trade.outcome \in {"counter_rejected", "rejected"}
                /\ inventory = trade.playerBefore
                /\ traderInv = trade.traderBefore

\* a counter-offer of exactly 10 units, accepted by the player
C13_Witness ==
    /\ trade.op = "propose" /\ traderKind = "Trader"
    /\ trade.presenting = Offer("gold", 4)
    /\ trade.requesting = Offer("water", CounterLimit)
    /\ trade.traderBefore.water = 20
    /\ trade.playerBefore.gold = 12 /\ trade.playerBefore.water = 12
    /\ trade.outcome = "counter"
    /\ trade.counter.quantity = CounterLimit
    /\ inventory.water = 22
    /\ inventory.gold = 7

(***************************************************************************)
(* The paths of the search                                                 *)
(***************************************************************************)
\* the sum of the move_cost of the cells of a path
RECURSIVE RouteCost(_, _)
RouteCost(g, p) ==
    IF p = <<>> THEN 0 ELSE move_cost(g[Head(p)]) + RouteCost(g, Tail(p))

RECURSIVE Flood(_, _)
Flood(g, S) ==
    LET T == S \cup {c \in Cells : /\ move_cost(g[c]) < Inf
                                   /\ \E d \in S : OneMove(d, c)}
    IN  IF T = S THEN S ELSE Flood(g, T)

WaterCells == {c \in Cells : Item("water", c) \in items}

\* the water items a route of at least one move reaches from the cell the
\* last turn started on
WaterInReach ==
    {w \in WaterCells \ {turn.from} : MinRouteCost(grid, turn.from, w) < Inf}

\* what decide_path has to return when the strength is healthy and the
\* water critical: a least-cost path to a water item
PlansLeastCostWater ==
    (/\ turn.planned
     /\ ~Below(IF turn.rested THEN strength - 1 ELSE strength + 1, 3, inventory.max_items)
     /\ WaterInReach # {})
    => /\ ~turn.rested
       /\ turn.route[Len(turn.route)] \in WaterInReach
       /\ RouteCost(grid, turn.route)
            = MinOf({MinRouteCost(grid, turn.from, w) : w \in WaterInReach})

\* C15: with a healthy strength, critical water and a reachable water item
\* decide_path returns the least-cost path to the item, and after as many
\* turns as the path has steps the player is on the item's tile, the route
\* is empty and the item has been collected.
C15_WaterCollected ==
    (turn.op = "make_move" /\ Below(inventory.water, 4, inventory.max_items))
    => /\ PlansLeastCostWater
       /\ (/\ ~turn.rested
           /\ turn.step = Len(turn.route)
           /\ turn.route[Len(turn.route)] \in WaterCells
           /\ move_cost(grid[turn.route[Len(turn.route)]]) < Inf)
          => /\ location = turn.route[Len(turn.route)]
             /\ path = <<>>
             /\ Item("water", location) \notin items

CandidateCost(i) ==
    IF astar.candidates[i] = astar.start THEN Inf
    ELSE MinRouteCost(grid, astar.start, astar.candidates[i])

VisitedBefore(a, b) ==
    \/ a.pos[1] < b.pos[1]
    \/ a.pos[1] = b.pos[1] /\ a.pos[2] < b.pos[2]
    \/ a.pos = b.pos /\ a.what < b.what

NearestFirst(list) ==
    \A i \in 1 .. Len(list) : \A j \in i + 1 .. Len(list) :
       /\ list[i].distance <= list[j].distance
       /\ list[i].distance = list[j].distance => VisitedBefore(list[i], list[j])

\* C20: each list a scan returns is non-decreasing in distance, and entries
\* of equal distance are in the order in which the scan visited them.
C20_ScanSorted ==
    scan.status = "done"
    => /\ NearestFirst(scan.lists.resources)
       /\ NearestFirst(scan.lists.hazards)
       /\ NearestFirst(scan.lists.traders)
       /\ NearestFirst(scan.lists.safe_tiles)

\* the item visited first is the farther one, and two hazards are equally far
C20_Witness ==
    /\ scan.status = "done"
    /\ location = <<GridW - 1, 0>>
    /\ scan.lists.resources = <<Entry(<<GridW - 1, GridH - 1>>, "food", GridH - 1),
                                Entry(<<0, 0>>, "water", GridW - 1)>>
    /\ Len(scan.lists.hazards) = 2
    /\ scan.lists.hazards[1].distance = scan.lists.hazards[2].distance

(***************************************************************************)
(* The variants of the brain                                               *)
(***************************************************************************)
\* a resource or a trader that a route of at least one move reaches from
\* the cell the turn started on
ReachableTargets ==
    {c \in Cells \ {turn.from} :
        /\ \/ \E k \in ItemKinds : Item(k, c) \in items
           \/ \E i \in 1 .. Len(traders) : traders[i].location = c
        /\ c \in Flood(grid, {turn.from})}

\* strength, food and water ratios all >= 0.7 when the turn started
NeedsSatisfied ==
    \A k \in {"strength", "food", "water"} : 10 * turn.needs[k][1] >= 7 * turn.needs[k][2]

\* C29: for each of the four variants decide_path returns a sequence of
\* grid positions (possibly empty), and make_move ends without an error:
\* it pops one position or rests.
C29_RouteOfPositions ==
    turn.op = "make_move"
    => /\ turn.decision.kind = "route"
       /\ \A i \in 1 .. Len(turn.decision.route) : turn.decision.route[i] \in Int \X Int
       /\ turn.raised = "no"

\* C21: when no resource and no trader is reachable and strength, food and
\* water ratios are all >= 0.7, decide_path of each of the four variants
\* returns a non-empty route (CautiousBrain: the one tile east of the
\* player) and raises no error.
C21_IdleFallback ==
    (turn.op = "make_move" /\ ReachableTargets = {} /\ NeedsSatisfied)
    => /\ turn.decision.kind = "route"
       /\ turn.decision.route # <<>>
       /\ turn.brain = "Cautious"
            => turn.decision.route = << <<turn.from[1] + 1, turn.from[2]>> >>
       /\ turn.raised = "no"

\* the water and food items, the targets of the cautious brain, that a
\* route of at least one move reaches from the cell the turn started on
CautiousTargets ==
    {c \in Cells \ {turn.from} :
        /\ Item("water", c) \in items \/ Item("food", c) \in items
        /\ c \in Flood(grid, {turn.from})}

\* the strength ratio was at least 0.7 when the turn started
Healthy == 10 * turn.needs.strength[1] >= 7 * turn.needs.strength[2]

\* C22 as stated: decide_path returns a non-empty route only when some
\* target of the scan is reachable; when none is, it returns the empty
\* route.
C22_RouteOnlyToTarget ==
    (turn.op = "make_move" /\ turn.brain = "Cautious" /\ CautiousTargets = {})
    => turn.decision.route = <<>>

\* C22: CautiousBrain.decide_path returns a non-empty route only when some
\* target of the scan is reachable or the strength ratio is at least 0.7;
\* with no reachable target it returns the empty route when the strength
\* ratio is below 0.7 and the one tile east of the player otherwise.
C22_RouteOnlyToTargetOrFallback ==
    (turn.op = "make_move" /\ turn.brain = "Cautious" /\ CautiousTargets = {})
    => turn.decision.route = IF Healthy THEN << <<turn.from[1] + 1, turn.from[2]>> >>
                             ELSE <<>>

C22_Witness ==
    /\ turn.op = "make_move" /\ turn.brain = "Cautious"
    /\ items # {} /\ CautiousTargets = {}
    /\ turn.needs.strength = Ratio(14, PlayerMaxItems)
    /\ turn.decision = Route(<<>>)
    /\ turn.raised = "no" /\ location = turn.from

\* the cautious brain looks for water (strength ratio at least 0.3, water
\* ratio below 0.7) and a water item lies on the player's own tile, the
\* candidate of least cost
WaterOnOwnTile ==
    /\ turn.op = "make_move" /\ turn.brain = "Cautious"
    /\ 10 * turn.needs.strength[1] >= 3 * turn.needs.strength[2]
    /\ 10 * turn.needs.water[1] < 7 * turn.needs.water[2]
    /\ Item("water", turn.from) \in items

\* C23: when the target the brain selects is the tile the player is on, the
\* decision of the turn is a collect action on that tile: the player does
\* not move and the target is not skipped for a rest or another route.
C23_CollectOnOwnTile ==
    WaterOnOwnTile
    => /\ turn.decision = Action("collect")
       /\ location = turn.from

(***************************************************************************)
(* The moves of a session                                                  *)
(***************************************************************************)
\* C24: in every state of a session, after any turns of the brain and any
\* moves of the keyboard, the player's location is inside the grid.
C24_LocationInGrid == in_bounds(location)

Applied(inv, item) ==
    [inv EXCEPT ![ItemResource(item.kind)] =
        Min(inv.max_items, @ + ItemAmount(item.kind))]

\* C26: picking up a one-shot item applies it and removes it from the
\* registry of the game, so that it is applied at most once; picking up a
\* repeating item applies it and leaves the registry unchanged, so that it
\* is applied again whenever the player is on its tile.
C26_PickupRegistry ==
    turn.op \in {"on_pickup", "apply"}
    => /\ turn.raised = "no"
       /\ inventory = Applied(turn.before, turn.item)
       /\ items = IF turn.item.kind \in OneShotKinds
                  THEN turn.itemsBefore \ {turn.item}
                  ELSE turn.itemsBefore

(***************************************************************************)
(* The ledger and a resource kind it does not know                         *)
(***************************************************************************)
\* C27: add, spend and balance called with a resource kind other than gold,
\* food and water raise an error and change no counter; none of them
\* returns a value.
C27_UnknownKindRaises ==
    (call.op \in {"add", "spend", "balance"} /\ call.resource \notin Resources)
    => /\ call.raised
       /\ inventory = call.before

\* C28: each need that _assess_needs returns lies in [0, 1], and 0.0 means
\* satisfied, 1.0 critical: a counter filled to max_items has the need 0.0
\* and an empty counter the need 1.0.
C28_NeedsNormalised ==
    turn.op = "make_move"
    => /\ \A k \in {"strength", "food", "water"} :
             0 <= turn.needs[k][1] /\ turn.needs[k][1] <= turn.needs[k][2]
       /\ \A k \in {"food", "water"} :
             /\ inventory[k] = inventory.max_items => turn.needs[k][1] = 0
             /\ inventory[k] = 0 => turn.needs[k][1] = turn.needs[k][2]

(***************************************************************************)
(* The trader's side of an accepted counter-offer                          *)
(***************************************************************************)
\* C30: when the player accepts a counter-offer, the trader's inventory
\* gains quantity_given units of item_given, what the player gave, and
\* loses quantity units of item, what the player received.
C30_TraderMirrorsCounter ==
    (trade.op = "propose" /\ trade.outcome = "counter")
    => traderInv = [trade.traderBefore EXCEPT
                      ![trade.counter.item_given] = @ + trade.counter.quantity_given,
                      ![trade.counter.item] = @ - trade.counter.quantity]

(***************************************************************************)
(* The trades the player starts next to a trader                           *)
(***************************************************************************)
\* C31: a trade started by is_at_trader_location, settled on the original
\* terms or on an accepted counter-offer, leaves the player at least one
\* unit of the kind it offered.
C31_KeepsOneUnit ==
    (trade.op = "propose" /\ trade.outcome \in {"original", "counter"})
    => inventory[trade.presenting.item] >= 1

(***************************************************************************)
(* A proposal that is not settled                                          *)
(***************************************************************************)
\* C32: when propose_trade ends without a settlement (the trader rejects
\* and has no counter-offer, or the player rejects the counter-offer), no
\* counter of the player's or of the trader's inventory has changed; a
\* call of evaluate_trade_offer or of counter_trade_offer alone changes
\* none either.
C32_NoSettlementNoChange ==
    (\/ trade.op \in {"evaluate", "counter"}
     \/ trade.op = "propose" /\ trade.outcome \in {"rejected", "counter_rejected"})
    => /\ inventory = trade.playerBefore
       /\ traderInv = trade.traderBefore

\* the player holds the 3 gold it offers and rejects a counter-offer of
\* more than 10 units
C32_Witness ==
    /\ trade.op = "propose"
    /\ trade.outcome = "counter_rejected"
    /\ trade.presenting = Offer("gold", 3)
    /\ trade.counter.quantity > CounterLimit
    /\ trade.playerBefore.gold = 4
    /\ inventory.gold = 4
    /\ traderInv = trade.traderBefore

(***************************************************************************)
(* The order of the checks of the cautious brain                           *)
(***************************************************************************)
\* the items of the kind that a path of at least one move reaches from the
\* cell the turn started on
TargetsOfKind(kind) == {c \in CautiousTargets : Item(kind, c) \in items}

C34_CounterNeverLowers ==
    (/\ trade.op = "propose" /\ traderKind = "Trader"
     /\ trade.outcome \in {"counter", "counter_rejected"})
    => /\ trade.counter.quantity
            = Min(trade.requesting.quantity, trade.traderBefore[trade.requesting.item])
       /\ trade.counter.quantity_given >= trade.presenting.quantity

\* C35: over a settled trade, on the original terms or on a counter-offer,
\* the player's and the trader's counters of each kind add up to what they
\* added up to before: units are handed over, never made or lost.
C35_UnitsConserved ==
    Settled
    => \A r \in Resources :
          inventory[r] + traderInv[r] = trade.playerBefore[r] + trade.traderBefore[r]

C37_CounterAcceptable ==
    (/\ trade.op = "counter"
     /\ trade.returned # NoCounter
     /\ trade.presenting.quantity >= 1
     /\ trade.requesting.quantity >= 1)
    => evaluate_trade_offer(traderKind, trade.traderBefore,
                            Offer(trade.returned.item_given, trade.returned.quantity_given),
                            Offer(trade.returned.item, trade.returned.quantity))

\* a counter-offer capped by the stock, made for an offer the trader rejects
C37_Witness ==
    /\ trade.op = "counter"
    /\ trade.returned # NoCounter
    /\ trade.presenting.quantity >= 1
    /\ trade.requesting.quantity >= 3
    /\ trade.returned.quantity < trade.requesting.quantity
    /\ trade.returned.quantity >= 3
    /\ ~evaluate_trade_offer(traderKind, trade.traderBefore, trade.presenting, trade.requesting)

====
